---- MODULE Spec2Model ----
(***************************************************************************)
(* A proof-of-work block chain: Block (digest computation, mining) and     *)
(* Blockchain (genesis, add_block, is_chain_valid) of src/main.py.         *)
(*                                                                         *)
(* Strings are sequences of character codes ('0' = 48, 'a' = 97, ...).     *)
(* Python objects live in a heap, objs, and are referred to by their       *)
(* position in it: Blockchain.chain is a list of references, so the same   *)
(* Block instance may be referred to from several places.                  *)
(* SHA-256 is abstracted by a deterministic hash of HashLen hexadecimal    *)
(* characters (64 in the program).                                         *)
(***************************************************************************)
EXTENDS Integers, Sequences, FiniteSets, TLC

\* ---------------------------------------------------------------- bounds
HashLen == 2          \* hexadecimal characters of a digest
MaxNonce == 24        \* the nonce search is cut off here
MaxChain == 3         \* references held by Blockchain.chain
MaxObjs == 3          \* Block instances ever constructed, the genesis included

Min(a, b) == IF a < b THEN a ELSE b
Max(a, b) == IF a > b THEN a ELSE b

\* --------------------------------------------------------------- strings
\* str(n) of a non-negative int: its decimal digits
RECURSIVE Str(_)
Str(n) == IF n < 10 THEN <<48 + n>> ELSE Append(Str(n \div 10), 48 + (n % 10))

\* s[:d] of Python, for any integer d
Slice(s, d) ==
    IF d >= 0 THEN SubSeq(s, 1, Min(d, Len(s)))
    ELSE SubSeq(s, 1, Max(0, Len(s) + d))

\* c * d of Python for a one-character string c: empty when d <= 0
Repeat(c, d) == [i \in 1..Max(d, 0) |-> c]

\* "Genesis Block"
GenesisData == <<71, 101, 110, 101, 115, 105, 115, 32, 66, 108, 111, 99, 107>>
\* "RegularBlock"
RegularData == <<82, 101, 103, 117, 108, 97, 114, 66, 108, 111, 99, 107>>
\* "0", the previous_hash of the genesis block
NoHash == <<48>>

\* ------------------------------------------------------------ the digest
HexChar(v) == IF v < 10 THEN 48 + v ELSE 87 + v

RECURSIVE Fold(_, _)
Fold(h, s) ==
    IF s = <<>> THEN h ELSE Fold((h * 37 + Head(s)) % (16 ^ HashLen), Tail(s))

RECURSIVE HexDigits(_, _)
HexDigits(h, n) ==
    IF n = 0 THEN <<>> ELSE <<HexChar(h % 16)>> \o HexDigits(h \div 16, n - 1)

\* hashlib.sha256(bytes).hexdigest(): lowercase hexadecimal, fixed length
Sha256Hex(bytes) == HexDigits(Fold(135, bytes), HashLen)

\* Block.calculate_hash
calculate_hash(b) ==
    Sha256Hex(Str(b.index) \o b.timestamp \o b.data \o b.previous_hash
              \o Str(b.nonce))

\* Block.__init__
Block(timestamp, data, previous_hash, index) ==
    LET b == [index |-> index, timestamp |-> timestamp, data |-> data,
              previous_hash |-> previous_hash, nonce |-> 0, hash |-> <<>>]
    IN  [b EXCEPT !.hash = calculate_hash(b)]

\* MineCond with an off-by-one slice: the prefix compared is one character short
MineCond_short(b, d) == Slice(b.hash, d - 1) # Repeat(48, d - 1)

\* the condition of mine_block's while loop
MineCond(b, d) == Slice(b.hash, d) # Repeat(48, d)

\* ----------------------------------------------------------------- state
VARIABLES
    objs,        \* the heap: every Block instance constructed so far
    chain,       \* Blockchain.chain: references into objs
    difficulty,  \* Blockchain.difficulty
    pc,          \* "idle", or the call whose mine_block loop is running
    cur,         \* the Block instance being mined (0: none)
    arg,         \* mine_block's difficulty argument
    pre,         \* heap and chain as they were when add_block was entered
    result,      \* "True" or "False" when is_chain_valid has just returned
    tamper       \* the direct assignment the caller made, if any (history)

vars == <<objs, chain, difficulty, pc, cur, arg, pre, result, tamper>>

None == [objs |-> <<>>, chain |-> <<>>, b |-> 0]

\* no attribute has been assigned from outside
Untouched == [kind |-> "none"]

\* 0 .. one more than a digest has characters
Difficulties == 0..(HashLen + 1)
\* str(time.time()) when the chain is constructed: "1.5"
GenesisTime == <<49, 46, 53>>
\* str(time.time()) when a block is constructed: "1.5", "2.5"
Timestamps == {GenesisTime, <<50, 46, 53>>}

\* Blockchain.get_latest_block, as a reference
get_latest_block == chain[Len(chain)]

\* Blockchain.__init__ with __create_genesis_block
Init ==
    \E d \in Difficulties :
        /\ objs = <<Block(GenesisTime, GenesisData, NoHash, 0)>>
        /\ chain = <<1>>
        /\ difficulty = d
        /\ pc = "idle"
        /\ cur = 0
        /\ arg = 0
        /\ pre = None
        /\ result = "none"
        /\ tamper = Untouched

\* the caller constructs a Block
NewBlock ==
    /\ pc = "idle"
    /\ Len(objs) < MaxObjs
    /\ \E ts \in Timestamps, data \in {RegularData},
          prev \in {NoHash, objs[get_latest_block].hash},
          idx \in {0, objs[get_latest_block].index + 1} :
          objs' = Append(objs, Block(ts, data, prev, idx))
    /\ cur' = 0 /\ arg' = 0 /\ pre' = None /\ result' = "none"
    /\ UNCHANGED <<tamper, chain, difficulty, pc>>

\* Relink gone wrong: the index is copied from the tip, not incremented, and
\* the previous_hash the caller gave is kept
Relink_kept(os, b, tip) == [os EXCEPT ![b].index = os[tip].index]

\* add_block, lines 60-61: the linkage fields of new_block are rewritten
Relink(os, b, tip) ==
    [os EXCEPT ![b].previous_hash = os[tip].hash,
               ![b].index = os[tip].index + 1]

\* add_block(new_block) is entered, new_block being instance b of heap os
AddBlockOn(os, b) ==
    /\ pc = "idle"
    /\ Len(chain) < MaxChain
    /\ objs' = Relink(os, b, get_latest_block)
    /\ pc' = "add_block"
    /\ cur' = b
    /\ arg' = difficulty
    /\ pre' = [objs |-> os, chain |-> chain, b |-> b]
    /\ result' = "none"
    /\ UNCHANGED <<tamper, chain, difficulty>>

\* add_block(new_block) with any Block instance the caller holds
add_block(b) == AddBlockOn(objs, b)

\* the caller calls mine_block(d) on an instance the chain does not hold
mine_block(b, d) ==
    /\ pc = "idle"
    /\ \A i \in 1..Len(chain) : chain[i] # b
    /\ pc' = "mine_block"
    /\ cur' = b
    /\ arg' = d
    /\ pre' = None
    /\ result' = "none"
    /\ UNCHANGED <<tamper, objs, chain, difficulty>>

\* the loop body with its second statement left out: the hash is not recomputed
Attempt_stale(b) == [b EXCEPT !.nonce = b.nonce + 1]

\* the loop body with its statements swapped: the hash is recomputed before
\* the nonce is incremented
Attempt_swapped(b) ==
    [b EXCEPT !.hash = calculate_hash(b), !.nonce = b.nonce + 1]

\* one iteration of mine_block's loop
Attempt(b) ==
    LET n == [b EXCEPT !.nonce = b.nonce + 1]
    IN  [n EXCEPT !.hash = calculate_hash(n)]

mine_step ==
    /\ pc \in {"add_block", "mine_block"}
    /\ MineCond(objs[cur], arg)
    /\ objs[cur].nonce < MaxNonce
    /\ objs' = [objs EXCEPT ![cur] = Attempt(objs[cur])]
    /\ UNCHANGED <<tamper, chain, difficulty, pc, cur, arg, pre, result>>

\* add_block without its wait for mine_block: the block is stored without its mining
\* having finished
add_block_return_unmined ==
    /\ pc = "add_block"
    /\ chain' = Append(chain, cur)
    /\ pc' = "idle"
    /\ UNCHANGED <<tamper, objs, difficulty, cur, arg, pre, result>>

\* mine_block's loop ends inside add_block: the block is stored
add_block_return ==
    /\ pc = "add_block"
    /\ ~MineCond(objs[cur], arg)
    /\ chain' = Append(chain, cur)
    /\ pc' = "idle"
    /\ UNCHANGED <<tamper, objs, difficulty, cur, arg, pre, result>>

\* mine_block's loop ends in the caller's own call
mine_block_return ==
    /\ pc = "mine_block"
    /\ ~MineCond(objs[cur], arg)
    /\ pc' = "idle"
    /\ UNCHANGED <<tamper, objs, chain, difficulty, cur, arg, pre, result>>

\* is_chain_valid without the comparison of the stored with the recomputed
\* hash
RECURSIVE ValidFrom_nohash(_, _, _, _)
ValidFrom_nohash(os, ch, d, i) ==
    IF i > Len(ch) THEN TRUE
    ELSE LET current_block == os[ch[i]]
             previous_block == os[ch[i - 1]]
         IN  IF current_block.previous_hash # previous_block.hash
             THEN FALSE
             ELSE IF current_block.index # previous_block.index + 1
             THEN FALSE
             ELSE IF MineCond(current_block, d)
             THEN FALSE
             ELSE ValidFrom_nohash(os, ch, d, i + 1)

\* is_chain_valid without its first if statement (lines 72-74)
RECURSIVE ValidFrom_noif(_, _, _, _)
ValidFrom_noif(os, ch, d, i) ==
    IF i > Len(ch) THEN TRUE
    ELSE LET current_block == os[ch[i]]
             previous_block == os[ch[i - 1]]
         IN  IF current_block.index # previous_block.index + 1
             THEN FALSE
             ELSE IF MineCond(current_block, d)
             THEN FALSE
             ELSE ValidFrom_noif(os, ch, d, i + 1)

\* is_chain_valid without the comparison of the indices (lines 75-76)
RECURSIVE ValidFrom_noindex(_, _, _, _)
ValidFrom_noindex(os, ch, d, i) ==
    IF i > Len(ch) THEN TRUE
    ELSE LET current_block == os[ch[i]]
             previous_block == os[ch[i - 1]]
         IN  IF \/ current_block.hash # calculate_hash(current_block)
                \/ current_block.previous_hash # previous_block.hash
             THEN FALSE
             ELSE IF MineCond(current_block, d)
             THEN FALSE
             ELSE ValidFrom_noindex(os, ch, d, i + 1)

\* is_chain_valid without the proof-of-work comparison (lines 77-78)
RECURSIVE ValidFrom_nopow(_, _, _, _)
ValidFrom_nopow(os, ch, d, i) ==
    IF i > Len(ch) THEN TRUE
    ELSE LET current_block == os[ch[i]]
             previous_block == os[ch[i - 1]]
         IN  IF \/ current_block.hash # calculate_hash(current_block)
                \/ current_block.previous_hash # previous_block.hash
             THEN FALSE
             ELSE IF current_block.index # previous_block.index + 1
             THEN FALSE
             ELSE ValidFrom_nopow(os, ch, d, i + 1)

\* Blockchain.is_chain_valid, from index i on
RECURSIVE ValidFrom(_, _, _, _)
ValidFrom(os, ch, d, i) ==
    IF i > Len(ch) THEN TRUE
    ELSE LET current_block == os[ch[i]]
             previous_block == os[ch[i - 1]]
         IN  IF \/ current_block.hash # calculate_hash(current_block)
                \/ current_block.previous_hash # previous_block.hash
             THEN FALSE
             ELSE IF current_block.index # previous_block.index + 1
             THEN FALSE
             ELSE IF MineCond(current_block, d)
             THEN FALSE
             ELSE ValidFrom(os, ch, d, i + 1)

\* is_chain_valid looking at the latest block only
is_chain_valid_latest == ValidFrom(objs, chain, difficulty, Max(2, Len(chain)))

is_chain_valid == ValidFrom(objs, chain, difficulty, 2)

\* is_chain_valid storing the hash it recomputed for the latest block
Validate_storing ==
    /\ pc = "idle"
    /\ result' = IF is_chain_valid THEN "True" ELSE "False"
    /\ objs' = [objs EXCEPT ![get_latest_block].hash =
                                calculate_hash(objs[get_latest_block])]
    /\ cur' = 0 /\ arg' = 0 /\ pre' = None
    /\ UNCHANGED <<tamper, chain, difficulty, pc>>

Validate ==
    /\ pc = "idle"
    /\ result' = IF is_chain_valid THEN "True" ELSE "False"
    /\ cur' = 0 /\ arg' = 0 /\ pre' = None
    /\ UNCHANGED <<tamper, objs, chain, difficulty, pc>>

Next ==
    \/ NewBlock
    \/ \E b \in 1..Len(objs) : add_block(b)
    \/ mine_step
    \/ add_block_return
    \/ Validate

\* the chain's own interface: Block(...), add_block, is_chain_valid
Spec == Init /\ [][Next]_vars

\* ------------------------------------------------------ create_blockchain
\* one iteration of create_blockchain's loop, up to the mining:
\* Block(time.time(), f"RegularBlock#{i}", latest.hash), then add_block
create_step ==
    \E ts \in Timestamps :
        LET i == Len(chain)
            block == Block(ts, RegularData \o <<35>> \o Str(i),
                           objs[get_latest_block].hash, 0)
        IN  AddBlockOn(Append(objs, block), Len(objs) + 1)

NextCreate ==
    \/ create_step
    \/ mine_step
    \/ add_block_return
    \/ Validate

SpecCreate == Init /\ [][NextCreate]_vars

\* ------------------------------------------------------ mine_block alone
\* digests a block may carry into mine_block: current, all zeros, others
StartHashes(b) ==
    {calculate_hash(b)} \cup {HexDigits(v, HashLen) : v \in 0..31}

\* a Block on its own, with any nonce and any stored digest
InitMine ==
    \E ts \in Timestamps, idx \in 0..1, n \in 0..2,
       prev \in {NoHash, calculate_hash(Block(GenesisTime, GenesisData, NoHash, 0))} :
        LET b == [Block(ts, RegularData, prev, idx) EXCEPT !.nonce = n]
        IN  \E h \in StartHashes(b) :
                /\ objs = <<[b EXCEPT !.hash = h]>>
                /\ chain = <<>>
                /\ difficulty = 0
                /\ pc = "idle"
                /\ cur = 0
                /\ arg = 0
                /\ pre = None
                /\ result = "none"
                /\ tamper = Untouched

NextMine ==
    \/ \E d \in Difficulties : mine_block(1, d)
    \/ mine_step
    \/ mine_block_return

SpecMine == InitMine /\ [][NextMine]_vars

\* ------------------------------------- attributes assigned from outside
\* Block's and Blockchain's attributes are public: the caller may assign
\* them. One assignment is followed here, made to a chain that add_block has
\* built from fresh blocks, up to the is_chain_valid call that judges it.

\* payloads the caller may write: "RegularBlock", "x"
Payloads == {RegularData, <<120>>}
\* digests the caller may write as previous_hash: "0", all zeros, all 'f'
Links == {NoHash, Repeat(48, HashLen), Repeat(102, HashLen)}

\* what is kept of an assignment: the place, the block and the difficulty as
\* they were, and what is_chain_valid returned (would have) before it
Record(kind, i) ==
    [kind |-> kind, at |-> i, old |-> objs[chain[i]], d |-> difficulty,
     valid |-> is_chain_valid]

\* chain[i].data = v, the hash left as it is
TamperData(i, v) ==
    /\ pc = "idle"
    /\ tamper = Untouched
    /\ v # objs[chain[i]].data
    /\ objs' = [objs EXCEPT ![chain[i]].data = v]
    /\ tamper' = Record("data", i)
    /\ cur' = 0 /\ arg' = 0 /\ pre' = None /\ result' = "none"
    /\ UNCHANGED <<chain, difficulty, pc>>

\* chain[i].previous_hash = v
TamperLink(i, v) ==
    /\ pc = "idle"
    /\ tamper = Untouched
    /\ v # objs[chain[i]].previous_hash
    /\ objs' = [objs EXCEPT ![chain[i]].previous_hash = v]
    /\ tamper' = Record("previous_hash", i)
    /\ cur' = 0 /\ arg' = 0 /\ pre' = None /\ result' = "none"
    /\ UNCHANGED <<chain, difficulty, pc>>

\* chain[i].index = v
TamperIndex(i, v) ==
    /\ pc = "idle"
    /\ tamper = Untouched
    /\ v # objs[chain[i]].index
    /\ objs' = [objs EXCEPT ![chain[i]].index = v]
    /\ tamper' = Record("index", i)
    /\ cur' = 0 /\ arg' = 0 /\ pre' = None /\ result' = "none"
    /\ UNCHANGED <<chain, difficulty, pc>>

\* blockchain.difficulty = d
SetDifficulty(d) ==
    /\ pc = "idle"
    /\ tamper = Untouched
    /\ d # difficulty
    /\ difficulty' = d
    /\ tamper' = Record("difficulty", 1)
    /\ cur' = 0 /\ arg' = 0 /\ pre' = None /\ result' = "none"
    /\ UNCHANGED <<objs, chain, pc>>

\* as example() does: Block(time.time(), "RegularBlock", latest.hash), here
\* also with the index parameter given, then add_block
example_step ==
    /\ tamper = Untouched
    /\ \E ts \in Timestamps, idx \in {0, objs[get_latest_block].index + 1} :
          AddBlockOn(Append(objs, Block(ts, RegularData,
                                        objs[get_latest_block].hash, idx)),
                     Len(objs) + 1)

NextTamper ==
    \/ example_step
    \/ mine_step
    \/ add_block_return
    \/ \E i \in 1..Len(chain), v \in Payloads : TamperData(i, v)
    \/ \E i \in 1..Len(chain), v \in Links : TamperLink(i, v)
    \/ \E i \in 1..Len(chain), v \in 0..MaxChain : TamperIndex(i, v)
    \/ \E d \in Difficulties : SetDifficulty(d)
    \/ Validate

SpecTamper == Init /\ [][NextTamper]_vars

\* ------------------------------------------------------------ progress
\* A Block on its own that the caller mines, or a chain that grows as in
\* example(). The program is sequential: a loop that can take its next step
\* takes it, and a call whose loop has ended returns.
InitLive == Init \/ InitMine

NextLive ==
    \/ chain # <<>> /\ example_step
    \/ \E d \in Difficulties : mine_block(1, d)
    \/ mine_step
    \/ add_block_return
    \/ mine_block_return

SpecLive ==
    /\ InitLive
    /\ [][NextLive]_vars
    /\ WF_vars(mine_step)
    /\ WF_vars(add_block_return)
    /\ WF_vars(mine_block_return)

\* ================================================================ claims
\* the block stored at index i of the chain (1-based; index 1 is genesis)
Stored(i) == objs[chain[i]]

\* add_block has just returned
Appended == pc = "idle" /\ pre.b # 0

\* the tip of the chain when add_block was entered
PreTip == pre.objs[pre.chain[Len(pre.chain)]]

\* the first d characters of digest h exist and are all '0'
LeadingZeros(h, d) == \A k \in 1..d : k <= Len(h) /\ h[k] = 48

\* C1: whenever no call is running (after construction, after every mine
\* and after every add_block), every block's stored digest equals the
\* digest recomputed from its current fields.
C1_DigestNeverStale ==
    pc = "idle" => \A b \in 1..Len(objs) : objs[b].hash = calculate_hash(objs[b])

\* C2: a chain built as create_blockchain builds it, at any difficulty and
\* with any number of blocks, passes is_chain_valid.
C2_CreatedChainValid ==
    pc = "idle" => is_chain_valid

\* C3: using add_block alone, with whatever instances the caller passes,
\* every link of the chain is valid and is_chain_valid returns true.
C3_AppendKeepsChainValid ==
    pc = "idle" =>
        /\ \A i \in 2..Len(chain) :
              /\ Stored(i).hash = calculate_hash(Stored(i))
              /\ Stored(i).previous_hash = Stored(i - 1).hash
              /\ Stored(i).index = Stored(i - 1).index + 1
              /\ LeadingZeros(Stored(i).hash, difficulty)
        /\ is_chain_valid

\* C4: after every add_block, each block's previous_hash is the digest
\* currently stored in the block before it.
C4_LinkedToPredecessor ==
    pc = "idle" =>
        \A i \in 2..Len(chain) : Stored(i).previous_hash = Stored(i - 1).hash

\* C5: after every add_block, each block's index is one more than the index
\* of the block before it, so the block at position i has index i.
C5_ConsecutiveIndex ==
    pc = "idle" =>
        \A i \in 2..Len(chain) :
            /\ Stored(i).index = Stored(i - 1).index + 1
            /\ Stored(i).index = i - 1

\* C6 as stated: after construction and after every add_block every stored
\* block, the genesis block included, has `difficulty` leading zeros.
C6_EveryBlockMeetsDifficulty ==
    pc = "idle" =>
        \A i \in 1..Len(chain) : LeadingZeros(Stored(i).hash, difficulty)

\* C6 amended: after every add_block every block stored by add_block (every
\* index but the genesis block's) has `difficulty` leading zeros; the genesis
\* block is never mined.
C6_AppendedBlocksMeetDifficulty ==
    pc = "idle" =>
        \A i \in 2..Len(chain) : LeadingZeros(Stored(i).hash, difficulty)

\* a block was mined into the chain behind a genesis block that itself
\* does not meet the difficulty
C6_Witness ==
    /\ pc = "idle"
    /\ Len(chain) >= 2
    /\ difficulty >= 1
    /\ Stored(Len(chain)).nonce > 0
    /\ chain[1] = 1
    /\ ~LeadingZeros(Stored(1).hash, difficulty)

\* C7: when add_block(b) returns, the tip is b, its previous_hash is the
\* digest the previous tip had when the call was made and its index is that
\* tip's index + 1, whatever b held in those fields before.
C7_AppendLinkage ==
    Appended =>
        /\ chain = Append(pre.chain, pre.b)
        /\ objs[pre.b].previous_hash = PreTip.hash
        /\ objs[pre.b].index = PreTip.index + 1

\* add_block returned for a block that came with another previous_hash and
\* another index
C7_Witness ==
    /\ Appended
    /\ pre.objs[pre.b].previous_hash # PreTip.hash
    /\ pre.objs[pre.b].index # PreTip.index + 1
    /\ Len(chain) = 3

\* C8: the chain is never empty and its first block is the genesis block,
\* with index 0, previous_hash "0", data "Genesis Block" and nonce 0, also
\* after any sequence of add_block calls.
C8_GenesisFixed ==
    pc = "idle" =>
        /\ Len(chain) >= 1
        /\ chain[1] = 1
        /\ objs[1].index = 0
        /\ objs[1].previous_hash = NoHash
        /\ objs[1].data = GenesisData
        /\ objs[1].nonce = 0

\* C9: add_block lengthens the chain by one, leaves the stored blocks where
\* they were and changes no field of a block already stored.
C9_AppendOnly ==
    Appended =>
        /\ Len(chain) = Len(pre.chain) + 1
        /\ \A i \in 1..Len(pre.chain) :
              /\ chain[i] = pre.chain[i]
              /\ objs[chain[i]] = pre.objs[pre.chain[i]]

\* mine_block has just returned (in SpecMine only mine_block sets cur)
Mined == pc = "idle" /\ cur # 0

\* C10: whenever mine_block(d) returns, d >= 0, the stored digest has d
\* leading zeros, whatever nonce and digest the block started with.
C10_MinePostcondition ==
    Mined => LeadingZeros(objs[cur].hash, arg)

\* mine_block(2) returned after searching
C10_Witness ==
    /\ Mined
    /\ arg = HashLen
    /\ objs[cur].nonce >= 4

\* is_chain_valid says, and said if it was called, that the chain is invalid
Rejected == ~is_chain_valid /\ result # "True"

\* the assigned block's digest differs from the digest it had (distinct
\* field tuples have distinct digests)
DigestsDiffer == calculate_hash(Stored(tamper.at)) # calculate_hash(tamper.old)

\* C11 as stated: a new payload written to any stored block of a chain that
\* validated, the hash left alone, makes is_chain_valid return false.
C11_PayloadTamperDetected ==
    (tamper.kind = "data" /\ tamper.valid /\ DigestsDiffer) => Rejected

\* C11 amended: a new payload written to any stored block but the genesis
\* block, in a chain that validated, makes is_chain_valid return false; the
\* genesis block's digest is never recomputed.
C11_PayloadTamperDetectedPastGenesis ==
    (tamper.kind = "data" /\ tamper.valid /\ DigestsDiffer /\ tamper.at >= 2)
        => Rejected

\* is_chain_valid returned false for the last of three blocks, rewritten
C11_Witness ==
    /\ tamper.kind = "data" /\ tamper.valid /\ DigestsDiffer
    /\ tamper.at = 3
    /\ result = "False"

\* C12 as stated: an unrelated previous_hash written to any stored block of
\* a chain that validated makes is_chain_valid return false.
C12_LinkTamperDetected ==
    (tamper.kind = "previous_hash" /\ tamper.valid) => Rejected

\* C12 amended: an unrelated previous_hash written to any stored block but
\* the genesis block makes is_chain_valid return false; the genesis block's
\* previous_hash is never read.
C12_LinkTamperDetectedPastGenesis ==
    (tamper.kind = "previous_hash" /\ tamper.valid /\ tamper.at >= 2)
        => Rejected

\* is_chain_valid returned false for a middle block relinked
C12_Witness ==
    /\ tamper.kind = "previous_hash" /\ tamper.valid
    /\ tamper.at = 2 /\ Len(chain) = 3
    /\ Stored(2).previous_hash # Stored(1).hash
    /\ result = "False"

\* C13 as stated: a non-consecutive index written to any stored block of a
\* chain that validated makes is_chain_valid return false.
C13_IndexTamperDetected ==
    (tamper.kind = "index" /\ tamper.valid) => Rejected

\* C13 amended: a non-consecutive index written to any stored block makes
\* is_chain_valid return false, unless the block is the genesis block of a
\* chain that holds no other block.
C13_IndexTamperDetectedWithNeighbour ==
    (tamper.kind = "index" /\ tamper.valid
       /\ (tamper.at >= 2 \/ Len(chain) >= 2))
        => Rejected

\* is_chain_valid returned false after the genesis block's index was
\* rewritten, its successor untouched
C13_Witness ==
    /\ tamper.kind = "index" /\ tamper.valid
    /\ tamper.at = 1 /\ Len(chain) >= 2
    /\ result = "False"

\* an appended block whose digest lacks `difficulty` leading zeros
SomeBlockBelowDifficulty ==
    \E i \in 2..Len(chain) : ~LeadingZeros(Stored(i).hash, difficulty)

\* C14: after the difficulty attribute is raised so that some appended
\* block's digest lacks that many leading zeros, is_chain_valid returns
\* false.
C14_RaisedDifficultyEnforced ==
    (tamper.kind = "difficulty" /\ difficulty > tamper.d
       /\ SomeBlockBelowDifficulty)
        => Rejected

\* a chain built and valid at difficulty 0 was judged at difficulty 3
C14_Witness ==
    /\ tamper.kind = "difficulty" /\ tamper.valid
    /\ tamper.d = 0 /\ difficulty = HashLen + 1
    /\ Len(chain) >= 2
    /\ result = "False"

\* the four checks of is_chain_valid on the block at place i >= 2
ChecksPass(i) ==
    /\ Stored(i).hash = calculate_hash(Stored(i))
    /\ Stored(i).previous_hash = Stored(i - 1).hash
    /\ Stored(i).index = Stored(i - 1).index + 1
    /\ LeadingZeros(Stored(i).hash, difficulty)

\* C15: is_chain_valid returns true exactly when every block but the
\* genesis block passes the four checks; the genesis block is not checked,
\* and a chain of the genesis block alone validates at any difficulty.
C15_ValidateIffChecksPass ==
    /\ is_chain_valid = (\A i \in 2..Len(chain) : ChecksPass(i))
    /\ result = "True" => \A i \in 2..Len(chain) : ChecksPass(i)
    /\ result = "False" => \E i \in 2..Len(chain) : ~ChecksPass(i)
    /\ Len(chain) = 1 => (is_chain_valid /\ result # "False")

\* is_chain_valid returned true for three blocks although the genesis
\* block's payload is not the one its digest was computed from
C15_Witness ==
    /\ result = "True"
    /\ Len(chain) = 3
    /\ tamper.kind = "data" /\ tamper.at = 1
    /\ Stored(1).hash # calculate_hash(Stored(1))

\* C16: inside add_block, after previous_hash and index are rewritten, the
\* digest is recomputed from the rewritten fields before the block is
\* stored, at every difficulty: the block is stored with the digest of the
\* fields it is stored with.
C16_RecomputedBeforeStored ==
    Appended => objs[pre.b].hash = calculate_hash(objs[pre.b])

\* block b as mine_block leaves it once its nonce has reached n
AtNonce(b, n) ==
    IF n = b.nonce THEN b
    ELSE LET c == [b EXCEPT !.nonce = n] IN [c EXCEPT !.hash = calculate_hash(c)]

\* the nonce search of block b reaches a digest with d leading zeros
SearchSucceeds(b, d) ==
    \E n \in b.nonce..MaxNonce : ~MineCond(AtNonce(b, n), d)

\* some digest has d leading zeros
ShapeExists(d) == LeadingZeros(Repeat(48, HashLen), d)

\* a mine_block loop is running, in the caller's call or in add_block
Mining == pc # "idle"

\* the call has returned, and add_block has stored its block
Returned ==
    /\ pc = "idle"
    /\ pre.b # 0 => chain[Len(chain)] = pre.b

\* C17 as stated: mine_block returns for every difficulty >= 0, the search
\* being assumed to succeed whenever a digest of the required shape exists;
\* so every add_block call completes and stores its block.
C17_MiningReturns ==
    (Mining /\ (ShapeExists(arg) => SearchSucceeds(objs[cur], arg))) ~> Returned

\* C17 amended: mine_block returns for every difficulty from 0 to the
\* number of characters of a digest, the search being assumed to succeed;
\* beyond that length no digest matches and mine_block never returns.
C17_MiningReturnsUpToDigestLength ==
    (Mining /\ arg <= HashLen /\ SearchSucceeds(objs[cur], arg)) ~> Returned

\* add_block stored a block at full difficulty after a search
C17_Witness ==
    /\ Appended
    /\ arg = HashLen
    /\ objs[cur].nonce >= 4
    /\ chain[Len(chain)] = cur

\* C18: while mine_block runs, no field of any block changes but the mined
\* block's nonce and hash; each change raises the nonce by exactly 1 and
\* leaves the hash equal to the digest of the fields with the new nonce.
C18_MineTouchesNonceAndHash ==
    [][pc = "mine_block" =>
         /\ Len(objs') = Len(objs)
         /\ \A b \in 1..Len(objs) :
               LET o == objs[b]
                   n == objs'[b]
               IN  /\ n.index = o.index
                   /\ n.timestamp = o.timestamp
                   /\ n.data = o.data
                   /\ n.previous_hash = o.previous_hash
                   /\ n.nonce >= o.nonce
                   /\ n # o => /\ b = cur
                               /\ n.nonce = o.nonce + 1
                               /\ n.hash = calculate_hash(n)]_vars

\* mine_block returned with the nonce raised well above any it started from
C18_Witness ==
    /\ Mined
    /\ arg >= 1
    /\ objs[cur].nonce >= 6
    /\ objs[cur].hash = calculate_hash(objs[cur])

\* C19: is_chain_valid changes neither the chain, nor a block, nor the
\* difficulty, and called again with nothing changed in between it returns
\* the same.
C19_ValidateReadOnly ==
    [][result' # "none" =>
         /\ objs' = objs
         /\ chain' = chain
         /\ difficulty' = difficulty
         /\ result # "none" => result' = result]_vars

\* is_chain_valid returned for a chain of three blocks
C19_Witness ==
    /\ result # "none"
    /\ Len(chain) = 3
    /\ pc = "idle"

====
